---- MODULE Spec2Model ----
(***************************************************************************)
(* A model of minilv.py, the miniLUT plotting utility: argument checks,    *)
(* the two-layout load of the binary file, the output file name, and the   *)
(* plotting loop with its monotony test.                                   *)
(*                                                                         *)
(* Strings the program builds are sequences of one-character strings.      *)
(* tau values are integers in units of 1/10000.                            *)
(***************************************************************************)
EXTENDS Integers, Sequences, FiniteSets, TLC

VARIABLES args, pc, tau, ftau, fdata, minilut, out, exitStatus, traceback,
          opened, fname, tau_sampling, plotted, saved, saveResult, shown,
          mslice, monotony

vars == <<args, pc, tau, ftau, fdata, minilut, out, exitStatus, traceback,
          opened, fname, tau_sampling, plotted, saved, saveResult, shown,
          mslice, monotony>>

progVars == <<args, pc, tau, ftau, fdata, minilut, out, exitStatus, traceback,
              opened, fname, tau_sampling, plotted, saved, saveResult, shown>>

(***************************************************************************)
(* Bounds of the model.                                                    *)
(***************************************************************************)
MaxBand == 14
MaxLevel == 5
MaxTauDim == 27
NumPatterns == 4
MaxSliceLen == 3
MaxVal == 3

(***************************************************************************)
(* Text helpers: str(int), "%4.2f", FILE[:-4].                             *)
(***************************************************************************)
Chr(d) == <<"0", "1", "2", "3", "4", "5", "6", "7", "8", "9">>[d + 1]

RECURSIVE StrNat(_)
StrNat(n) == IF n < 10 THEN <<Chr(n)>> ELSE StrNat(n \div 10) \o <<Chr(n % 10)>>

Str(n) == IF n < 0 THEN <<"-">> \o StrNat(-n) ELSE StrNat(n)

\* v is a value in 1/10000; the result is v rounded to 1/100, ties to even
\* (the values are exact binary fractions, so printf sees exact ties)
Hundredths(v) ==
    LET q == v \div 100
        r == v % 100
    IN  IF r > 50 \/ (r = 50 /\ q % 2 = 1) THEN q + 1 ELSE q

Fmt42(v) ==
    LET h == Hundredths(v)
    IN  StrNat(h \div 100) \o <<".">> \o <<Chr((h % 100) \div 10), Chr(h % 10)>>

\* Python s[:-4]
DropLast4(s) == SubSeq(s, 1, IF Len(s) > 4 THEN Len(s) - 4 ELSE 0)

Msg(pre, msg, arg) == [pre |-> pre, msg |-> msg, arg |-> arg]

(***************************************************************************)
(* Axis definitions (main, lines 50-57).                                   *)
(***************************************************************************)
nbandLen == 13
vband == <<444, 496, 560, 664, 704, 740, 782, 832, 865, 944, 1373, 1613, 2198>>
\* len(np.arange(-0.2, 1.2, 0.07)) = ceil((stop - start) / step), in 1/100
rtoaLen == (120 - (-20) + 7 - 1) \div 7
\* np.linspace(0., 1.5, 25)
Linspace15 == [i \in 1..25 |-> (i - 1) * 625]
\* np.append(tau, [2.0, 3.0])
TauExtended == Linspace15 \o <<20000, 30000>>
\* len(np.arange(0, 3100, 1000))
altLen == (3100 + 1000 - 1) \div 1000
alt == [i \in 1..altLen |-> (i - 1) * 1000]

Shape(ntau) == <<nbandLen, rtoaLen, ntau, altLen>>
Size(shape) == shape[1] * shape[2] * shape[3] * shape[4]

NoData == [n |-> -1, pat |-> -1]
NoShape == <<>>

(***************************************************************************)
(* The file: n float32 elements, filled by pattern pat.  A file of a       *)
(* known layout is filled slice by slice: the slice (b, :, t, z) is        *)
(* strictly increasing unless the pattern marks it, and then it is         *)
(* constant, has one tie, or has one dip.                                  *)
(***************************************************************************)
Marked(pat, b, t, z) ==
    CASE pat = 0 -> FALSE
      [] pat = 1 -> b = 0 /\ t = 8 /\ z = 0
      [] OTHER   -> (t + b + z) % pat = 0

FileValue(n, pat, i) ==
    LET per == nbandLen * rtoaLen * altLen
        T == IF n > 0 /\ n % per = 0 THEN n \div per ELSE 1
        z == i % altLen
        t == (i \div altLen) % T
        r == (i \div (altLen * T)) % rtoaLen
        b == i \div (altLen * T * rtoaLen)
    IN  IF ~Marked(pat, b, t, z) THEN r + b + z
        ELSE CASE pat % 3 = 1 -> b + z
               [] pat % 3 = 2 -> IF r < 5 THEN r ELSE r - 1
               [] OTHER       -> IF r = 3 THEN 0 ELSE r

(***************************************************************************)
(* numpy / Python indexing.                                                *)
(***************************************************************************)
\* an index i is accepted on an axis of length n iff -n <= i < n
InRange(i, n) == -n <= i /\ i < n
Norm(i, n) == IF i < 0 THEN i + n ELSE i

\* the same element read in Fortran order
ElemColumnMajor(fd, shape, b, r, t, z) ==
    FileValue(fd.n, fd.pat, b + shape[1] * (r + shape[2] * (t + shape[3] * z)))

\* fdata.reshape(shape)[b, r, t, z], C order, all indices already normalised
Elem(fd, shape, b, r, t, z) ==
    FileValue(fd.n, fd.pat, ((b * shape[2] + r) * shape[3] + t) * shape[4] + z)

\* minilut[band, :, t, level]
Slice(fd, shape, band, t, level) ==
    [r \in 1..shape[2] |->
        Elem(fd, shape, Norm(band, shape[1]), r - 1, Norm(t, shape[3]),
             Norm(level, shape[4]))]

\* np.diff(x)
Diff(x) == [i \in 1..(IF Len(x) > 0 THEN Len(x) - 1 ELSE 0) |-> x[i + 1] - x[i]]

\* the test with >= in place of >
MonotonyNonStrict(x) == \A i \in 1..Len(Diff(x)) : Diff(x)[i] >= 0

\* np.all(np.diff(x) > 0)
Monotony(x) == \A i \in 1..Len(Diff(x)) : Diff(x)[i] > 0

(***************************************************************************)
(* Inputs.                                                                 *)
(***************************************************************************)
FileNames ==
    { <<"s", "a", "m", "p", "l", "e", ".", "m", "i", "n", "i", "l", "u", "t">>,
      <<"l", "u", "t", ".", "d", "a", "t">> }

\* element counts of the files tried: the empty file, whole multiples of one
\* tau plane around the two layouts, and counts that are no multiple at all
FileCounts ==
    { k * nbandLen * rtoaLen * altLen : k \in 24..MaxTauDim }
        \cup { 0, 1, Size(Shape(27)) + 1 }

OpenOutcomes == {"ok", "FileNotFoundError", "PermissionError"}
SaveOutcomes == {"ok", "PermissionError", "OSError"}

Init ==
    /\ args \in [FILE : FileNames, band : -1..MaxBand, level : -1..MaxLevel,
                 verbose : BOOLEAN, all : BOOLEAN]
    /\ pc = "check_band"
    /\ tau = TauExtended
    /\ ftau = "LUT30"
    /\ fdata = NoData
    /\ minilut = NoShape
    /\ out = <<>>
    /\ exitStatus = -1
    /\ traceback = "none"
    /\ opened = FALSE
    /\ fname = <<>>
    /\ tau_sampling = <<>>
    /\ plotted = <<>>
    /\ saved = FALSE
    /\ saveResult = "none"
    /\ shown = FALSE
    /\ mslice = <<>>
    /\ monotony = <<>>

\* an exception nothing catches: traceback on stderr, exit status 1
Uncaught(e) ==
    /\ traceback' = e
    /\ exitStatus' = 1
    /\ pc' = "exited"

\* sys.exit(n)
Exit(n) ==
    /\ exitStatus' = n
    /\ pc' = "exited"

(***************************************************************************)
(* main, lines 59-69: checking arguments.                                  *)
(***************************************************************************)
BandRejected(band) == band > nbandLen

LevelRejected(level) == level > altLen

CheckBand ==
    /\ pc = "check_band"
    /\ IF BandRejected(args.band)
         THEN /\ out' = Append(out, Msg("ERROR", "Band number out of range", <<>>))
              /\ Exit(1)
         ELSE /\ pc' = "check_level"
              /\ UNCHANGED <<out, exitStatus>>
    /\ UNCHANGED <<args, tau, ftau, fdata, minilut, traceback, opened, fname,
                   tau_sampling, plotted, saved, shown, saveResult, mslice, monotony>>

CheckLevel ==
    /\ pc = "check_level"
    /\ IF LevelRejected(args.level)
         THEN /\ out' = Append(out, Msg("ERROR", "Level out of range", <<>>))
              /\ Exit(1)
         ELSE /\ pc' = "info_band"
              /\ UNCHANGED <<out, exitStatus>>
    /\ UNCHANGED <<args, tau, ftau, fdata, minilut, traceback, opened, fname,
                   tau_sampling, plotted, saved, shown, saveResult, mslice, monotony>>

InfoBand ==
    /\ pc = "info_band"
    /\ out' = IF args.verbose
                THEN Append(out, Msg("INFO", "working with band B", Str(args.band + 1)))
                ELSE out
    /\ pc' = "open"
    /\ UNCHANGED <<args, tau, ftau, fdata, minilut, exitStatus, traceback, opened,
                   fname, tau_sampling, plotted, saved, shown, saveResult, mslice, monotony>>

(***************************************************************************)
(* main, lines 72-100: opening the miniLut file.                           *)
(***************************************************************************)
\* a reshape that only asks for enough elements
CanReshapeAtLeast(fd, shape) == fd.n >= Size(shape)

\* fdata.reshape(shape) succeeds iff the sizes agree
CanReshape(fd, shape) == fd.n = Size(shape)

\* the body of the try statement
OpenFile ==
    /\ pc = "open"
    /\ opened' = TRUE
    /\ \E outcome \in OpenOutcomes :
         IF outcome = "ok"
           THEN \E n \in FileCounts, pat \in 0..(NumPatterns - 1) :
                  /\ fdata' = [n |-> n, pat |-> pat]
                  /\ IF CanReshape(fdata', Shape(Len(tau)))
                       THEN /\ minilut' = Shape(Len(tau))
                            /\ out' = IF args.verbose
                                        THEN Append(out, Msg("INFO", "successfuly opened", args.FILE))
                                        ELSE out
                            /\ pc' = "fname"
                       ELSE /\ pc' = "except_ValueError"
                            /\ UNCHANGED <<minilut, out>>
           ELSE /\ pc' = IF outcome = "FileNotFoundError"
                           THEN "except_FileNotFoundError"
                           ELSE "except_other"
                /\ UNCHANGED <<fdata, minilut, out>>
    /\ UNCHANGED <<args, tau, ftau, exitStatus, traceback, fname, tau_sampling,
                   plotted, saved, shown, saveResult, mslice, monotony>>

\* a handler that keeps the 27-value axis
FallbackTauKept == TauExtended

FallbackTau == Linspace15

\* a handler that does not set the flag
FallbackTagKept == "LUT30"

FallbackTag == "LUT15"

\* except ValueError: retry with the axis up to AOT 1.5
ExceptValueError ==
    /\ pc = "except_ValueError"
    /\ out' = Append(out, Msg("WARNING", "bad minilut dimensions, trying with AOT->1.5", <<>>))
    /\ tau' = FallbackTau
    /\ IF CanReshape(fdata, Shape(Len(tau')))
         THEN /\ minilut' = Shape(Len(tau'))
              /\ ftau' = FallbackTag
              /\ pc' = "fname"
              /\ UNCHANGED <<exitStatus, traceback>>
         ELSE /\ Uncaught("ValueError")
              /\ UNCHANGED <<minilut, ftau>>
    /\ UNCHANGED <<args, fdata, opened, fname, tau_sampling, plotted, saved,
                   shown, saveResult, mslice, monotony>>

ExceptFileNotFound ==
    /\ pc = "except_FileNotFoundError"
    /\ out' = Append(out, Msg("ERROR", "file not found...", args.FILE))
    /\ Exit(1)
    /\ UNCHANGED <<args, tau, ftau, fdata, minilut, traceback, opened, fname,
                   tau_sampling, plotted, saved, shown, saveResult, mslice, monotony>>

\* bare except: print, then re-raise (the sys.exit after raise never runs)
ExceptOther ==
    /\ pc = "except_other"
    /\ out' = Append(out, Msg("ERROR", "Unexpected error:", <<>>))
    /\ Uncaught("PermissionError")
    /\ UNCHANGED <<args, tau, ftau, fdata, minilut, opened, fname,
                   tau_sampling, plotted, saved, shown, saveResult, mslice, monotony>>

(***************************************************************************)
(* main, lines 102-108.                                                    *)
(***************************************************************************)
OutputName(FILE, band, level) ==
    DropLast4(FILE) \o <<"_", "B">> \o Str(band + 1) \o <<"_", "L">> \o Str(level)
        \o <<".", "p", "n", "g">>

MakeFname ==
    /\ pc = "fname"
    /\ fname' = OutputName(args.FILE, args.band, args.level)
    /\ pc' = "plot_setup"
    /\ UNCHANGED <<args, tau, ftau, fdata, minilut, out, exitStatus, traceback,
                   opened, tau_sampling, plotted, saved, shown, saveResult, mslice, monotony>>

Done ==
    /\ pc = "done"
    /\ out' = Append(out, Msg("INFO", "Done...", <<>>))
    /\ Exit(0)
    /\ UNCHANGED <<args, tau, ftau, fdata, minilut, traceback, opened, fname,
                   tau_sampling, plotted, saved, shown, saveResult, mslice, monotony>>

(***************************************************************************)
(* miniplot, lines 111-150.                                                *)
(***************************************************************************)
\* lines 114-121: the title reads vband[band] and alt[level]
PlotSetup ==
    /\ pc = "plot_setup"
    /\ IF InRange(args.band, Len(vband)) /\ InRange(args.level, Len(alt))
         THEN /\ pc' = "sampling"
              /\ UNCHANGED <<exitStatus, traceback>>
         ELSE Uncaught("IndexError")
    /\ UNCHANGED <<args, tau, ftau, fdata, minilut, out, opened, fname,
                   tau_sampling, plotted, saved, shown, saveResult, mslice, monotony>>

\* range(n) as a sequence
Range(n) == [i \in 1..n |-> i - 1]

\* lines 124-127
CuratedSampling(dims) ==
    CASE dims = "LUT30" -> <<0, 8, 16, 24, 25, 26>>
      [] dims = "LUT15" -> <<0, 8, 16, 24>>
      [] OTHER          -> <<>>

\* a sampling that ignores --all
TauSamplingCuratedOnly(dims, showall, ntau) == CuratedSampling(dims)

\* lines 124-131
TauSampling(dims, showall, ntau) ==
    IF showall THEN Range(ntau) ELSE CuratedSampling(dims)

Sampling ==
    /\ pc = "sampling"
    /\ tau_sampling' = TauSampling(ftau, args.all, Len(tau))
    /\ pc' = "loop"
    /\ UNCHANGED <<args, tau, ftau, fdata, minilut, out, exitStatus, traceback,
                   opened, fname, plotted, saved, shown, saveResult, mslice, monotony>>

\* the warning of line 139 is printed iff this holds
WarnNeeded(m) == ~m

\* lines 134-139: one pass of the loop, for the next t of tau_sampling
LoopStep ==
    /\ pc = "loop"
    /\ Len(plotted) < Len(tau_sampling)
    /\ LET t == tau_sampling[Len(plotted) + 1]
       IN  IF InRange(t, minilut[3]) /\ InRange(t, Len(tau))
             THEN LET x == Slice(fdata, minilut, args.band, t, args.level)
                      m == Monotony(x)
                  IN  /\ plotted' = Append(plotted, t)
                      /\ mslice' = x
                      /\ monotony' = <<m>>
                      /\ out' = IF WarnNeeded(m)
                                  THEN Append(out, Msg("WARNING", "non-monotone fitting for AOT=",
                                                       Fmt42(tau[Norm(t, Len(tau)) + 1])))
                                  ELSE out
                      /\ UNCHANGED <<pc, exitStatus, traceback>>
             ELSE /\ Uncaught("IndexError")
                  /\ UNCHANGED <<plotted, mslice, monotony, out>>
    /\ UNCHANGED <<args, tau, ftau, fdata, minilut, opened, fname, tau_sampling,
                   saved, shown, saveResult>>

\* line 141, once the loop is exhausted
Legend ==
    /\ pc = "loop"
    /\ Len(plotted) = Len(tau_sampling)
    /\ pc' = "savefig"
    /\ UNCHANGED <<args, tau, ftau, fdata, minilut, out, exitStatus, traceback,
                   opened, fname, tau_sampling, plotted, saved, shown, saveResult, mslice,
                   monotony>>

\* a savefig with no handler
SaveCaughtNothing(outcome) == FALSE

\* the exceptions of pl.savefig that line 146 catches
SaveCaught(outcome) == outcome = "PermissionError"

\* lines 143-147; miniplot then goes on to line 149
Savefig ==
    /\ pc = "savefig"
    /\ \E outcome \in SaveOutcomes :
         /\ saveResult' = outcome
         /\ CASE outcome = "ok" ->
                  /\ saved' = TRUE
                  /\ pc' = "show"
                  /\ UNCHANGED <<out, exitStatus, traceback>>
              [] outcome # "ok" /\ SaveCaught(outcome) ->
                  /\ out' = Append(out, Msg("WARNING", "write permission missing, couldn't save figure", <<>>))
                  /\ pc' = "show"
                  /\ UNCHANGED <<saved, exitStatus, traceback>>
              [] OTHER ->
                  /\ Uncaught(outcome)
                  /\ UNCHANGED <<saved, out>>
    /\ UNCHANGED <<args, tau, ftau, fdata, minilut, opened, fname, tau_sampling,
                   plotted, shown, mslice, monotony>>

\* lines 149-150, and the return to main
Show ==
    /\ pc = "show"
    /\ shown' = args.verbose
    /\ pc' = "done"
    /\ UNCHANGED <<args, tau, ftau, fdata, minilut, out, exitStatus, traceback,
                   opened, fname, tau_sampling, plotted, saved, saveResult, mslice,
                   monotony>>

Next ==
    \/ CheckBand
    \/ CheckLevel
    \/ InfoBand
    \/ OpenFile
    \/ ExceptValueError
    \/ ExceptFileNotFound
    \/ ExceptOther
    \/ MakeFname
    \/ PlotSetup
    \/ Sampling
    \/ LoopStep
    \/ Legend
    \/ Savefig
    \/ Show
    \/ Done

Spec == Init /\ [][Next]_vars

(***************************************************************************)
(* The monotony test of line 137 on its own, applied to arbitrary slices.  *)
(***************************************************************************)
RECURSIVE SeqsUpTo(_, _)
SeqsUpTo(S, n) ==
    IF n = 0 THEN {<<>>}
    ELSE LET shorter == SeqsUpTo(S, n - 1)
         IN  shorter \cup { Append(s, v) : s \in shorter, v \in S }

InitMono ==
    /\ args = [FILE |-> <<>>, band |-> 0, level |-> 0, verbose |-> FALSE, all |-> FALSE]
    /\ pc = "monotony"
    /\ tau = TauExtended
    /\ ftau = "LUT30"
    /\ fdata = NoData
    /\ minilut = NoShape
    /\ out = <<>>
    /\ exitStatus = -1
    /\ traceback = "none"
    /\ opened = FALSE
    /\ fname = <<>>
    /\ tau_sampling = <<>>
    /\ plotted = <<>>
    /\ saved = FALSE
    /\ saveResult = "none"
    /\ shown = FALSE
    /\ mslice \in SeqsUpTo(0..MaxVal, MaxSliceLen)
    /\ monotony = <<>>

TestMonotony ==
    /\ pc = "monotony"
    /\ monotony = <<>>
    /\ monotony' = <<Monotony(mslice)>>
    /\ UNCHANGED <<mslice, args, pc, tau, ftau, fdata, minilut, out, exitStatus,
                   traceback, opened, fname, tau_sampling, plotted, saved, shown, saveResult>>

NextMono == TestMonotony

SpecMono == InitMono /\ [][NextMono]_vars

(***************************************************************************)
(* Properties.                                                             *)
(***************************************************************************)
HasMsg(pre, msg) == \E i \in 1..Len(out) : out[i].pre = pre /\ out[i].msg = msg

HasPre(pre) == \E i \in 1..Len(out) : out[i].pre = pre

ExtendedCount == 13 * rtoaLen * 27 * 4
LegacyCount == 13 * rtoaLen * 25 * 4

FileRead == fdata # NoData

\* miniplot has been called
PlotterInvoked ==
    \/ pc \in {"plot_setup", "sampling", "loop", "savefig", "show", "done"}
    \/ pc = "exited" /\ fname # <<>> 

FallbackWarned == HasMsg("WARNING", "bad minilut dimensions, trying with AOT->1.5")

DonePrinted == HasMsg("INFO", "Done...")

ValidArgs == args.band \in 0..12 /\ args.level \in 0..3

\* C1: a file of 13*R*27*4 elements loads with shape (13, R, 27, 4), tag
\* LUT30, the 27-value tau axis and no warning; a file of 13*R*25*4 elements
\* falls back with a WARNING and loads with shape (13, R, 25, 4), tag LUT15
\* and the 25-value tau axis, and the run goes on to the plotter.
C1_LoadByCount ==
    /\ (FileRead /\ fdata.n = ExtendedCount) =>
          /\ minilut = <<13, rtoaLen, 27, 4>>
          /\ ftau = "LUT30"
          /\ Len(tau) = 27 /\ tau[25] = 15000 /\ tau[26] = 20000 /\ tau[27] = 30000
          /\ ~FallbackWarned
          /\ PlotterInvoked \/ pc = "fname"
    /\ (FileRead /\ fdata.n = LegacyCount /\ pc # "except_ValueError") =>
          /\ minilut = <<13, rtoaLen, 25, 4>>
          /\ ftau = "LUT15"
          /\ Len(tau) = 25 /\ tau[1] = 0 /\ tau[25] = 15000
          /\ FallbackWarned
          /\ PlotterInvoked \/ pc = "fname"

C1_Witness ==
    /\ FileRead /\ fdata.n = LegacyCount
    /\ minilut = <<13, rtoaLen, 25, 4>>
    /\ ftau = "LUT15"
    /\ FallbackWarned
    /\ pc = "loop" /\ Len(plotted) = 2

\* C2: the monotony test answers true iff every consecutive pair of the
\* slice is strictly increasing; true for empty and one-element slices.
C2_StrictMonotone ==
    monotony # <<>> =>
        (monotony[1] <=> \A i \in 1..(Len(mslice) - 1) : mslice[i + 1] > mslice[i])

C2_Witness ==
    /\ pc = "monotony"
    /\ mslice = <<2, 2, 3>>
    /\ monotony = <<FALSE>>

\* C3: a file whose element count is neither 13*R*27*4 nor 13*R*25*4 fails
\* after the fallback attempt: no array, the plotter is never invoked, no
\* image, no final message, and a non-zero exit status.
C3_NeitherLayoutFails ==
    (FileRead /\ fdata.n # ExtendedCount /\ fdata.n # LegacyCount) =>
        /\ minilut = NoShape
        /\ ~PlotterInvoked
        /\ plotted = <<>>
        /\ ~saved /\ saveResult = "none"
        /\ ~DonePrinted
        /\ \/ pc = "except_ValueError"
           \/ /\ pc = "exited"
              /\ FallbackWarned
              /\ traceback = "ValueError"
              /\ exitStatus # 0

C3_Witness ==
    /\ FileRead /\ fdata.n = 0
    /\ pc = "exited"
    /\ traceback = "ValueError"
    /\ exitStatus = 1

\* C4: a band index outside 0..12 or a level index outside 0..3 is rejected
\* with an out-of-range message and exit status 1 before the file is opened.
C4_OutOfRangeRejected ==
    ~ValidArgs =>
        /\ ~opened
        /\ pc \in {"check_band", "check_level", "exited"}
        /\ pc = "exited" =>
              /\ exitStatus = 1
              /\ \/ HasMsg("ERROR", "Band number out of range")
                 \/ HasMsg("ERROR", "Level out of range")

\* the AOT values the non-monotone warnings printed so far name, in order
WarnedAOT ==
    LET IsWarn(m) == m.msg = "non-monotone fitting for AOT="
        w == SelectSeq(out, IsWarn)
    IN  [i \in 1..Len(w) |-> w[i].arg]

\* the plotted indices whose slice the file does not fill strictly increasing
OffendingPlotted ==
    LET Offends(t) == Marked(fdata.pat, args.band, t, args.level)
    IN  SelectSeq(plotted, Offends)

\* C5: with a loaded array and a valid band and level, one non-monotone
\* warning is printed for each plotted AOT index whose slice is not strictly
\* increasing, in sampling order, and none for the others; the warnings never
\* stop the loop: every selected index is plotted, savefig is reached, and
\* the run ends with status 0 unless savefig itself fails.
C5_WarningPerOffendingSlice ==
    (ValidArgs /\ PlotterInvoked) =>
        /\ WarnedAOT = [i \in 1..Len(OffendingPlotted) |->
                            Fmt42(tau[OffendingPlotted[i] + 1])]
        /\ traceback # "IndexError"
        /\ pc \in {"savefig", "show", "done", "exited"} => plotted = tau_sampling
        /\ pc \in {"show", "done"} => saveResult \in {"ok", "PermissionError"}
        /\ (pc = "exited" /\ saveResult \in {"ok", "PermissionError"}) =>
              exitStatus = 0 /\ DonePrinted /\ traceback = "none"
        /\ saveResult = "ok" => saved

C5_Witness ==
    /\ FileRead /\ fdata.n = ExtendedCount /\ fdata.pat = 1
    /\ args.band = 0 /\ args.level = 0 /\ ~args.all
    /\ plotted = <<0, 8, 16, 24, 25, 26>>
    /\ WarnedAOT = << <<"0", ".", "5", "0">> >>
    /\ saved
    /\ pc = "exited" /\ exitStatus = 0

PlottedSet == { plotted[i] : i \in 1..Len(plotted) }

\* the loop of miniplot has run to its end
LoopFinished == pc \in {"savefig", "show", "done"} \/ saveResult # "none"

\* C6: the AOT indices plotted are {0, 8, 16, 24, 25, 26} for the Extended
\* variant and {0, 8, 16, 24} for the Legacy variant without show-all, and
\* every index of the AOT axis (0..26, 0..24) with show-all.
C6_SamplingSets ==
    LoopFinished =>
        /\ (fdata.n = ExtendedCount /\ ~args.all) => PlottedSet = {0, 8, 16, 24, 25, 26}
        /\ (fdata.n = LegacyCount /\ ~args.all) => PlottedSet = {0, 8, 16, 24}
        /\ (fdata.n = ExtendedCount /\ args.all) => PlottedSet = 0..26
        /\ (fdata.n = LegacyCount /\ args.all) => PlottedSet = 0..24
        /\ Len(plotted) = Cardinality(PlottedSet)

C6_Witness ==
    /\ fdata.n = LegacyCount /\ args.all
    /\ pc = "done"
    /\ PlottedSet = 0..24

EndsWith(s, suffix) ==
    /\ Len(s) >= Len(suffix)
    /\ SubSeq(s, Len(s) - Len(suffix) + 1, Len(s)) = suffix

DotMinilut == <<".", "m", "i", "n", "i", "l", "u", "t">>

\* C7: for an input file <stem>.minilut, band index b and level index z, the
\* output image name is <stem>_B<b+1>_L<z>.png.
C7_OutputName ==
    (fname # <<>> /\ EndsWith(args.FILE, DotMinilut)) =>
        fname = SubSeq(args.FILE, 1, Len(args.FILE) - Len(DotMinilut))
                    \o <<"_", "B">> \o Str(args.band + 1)
                    \o <<"_", "L">> \o Str(args.level)
                    \o <<".", "p", "n", "g">>

PermissionWarned == HasMsg("WARNING", "write permission missing, couldn't save figure")

\* C8: when savefig fails because the destination is not writable, the
\* failure is caught, a WARNING is printed and the run goes on: the figure
\* is shown if verbose, the final message is printed and the exit status
\* is 0.
C8_SavePermissionNonFatal ==
    saveResult = "PermissionError" =>
        /\ PermissionWarned
        /\ ~saved
        /\ traceback = "none"
        /\ pc \in {"show", "done", "exited"}
        /\ pc \in {"done", "exited"} => (shown <=> args.verbose)
        /\ pc = "exited" => (exitStatus = 0 /\ DonePrinted)

C8_Witness ==
    /\ saveResult = "PermissionError"
    /\ PermissionWarned
    /\ args.verbose /\ shown
    /\ pc = "exited" /\ exitStatus = 0 /\ DonePrinted

\* C9: every run that ends fatally has printed an ERROR: message and has a
\* non-zero exit status; every run that ends with status 0 has printed the
\* final message.
C9_FatalRunsPrintError ==
    pc = "exited" =>
        /\ exitStatus # 0 => HasPre("ERROR")
        /\ exitStatus = 0 => DonePrinted
        /\ traceback # "none" => exitStatus # 0

\* C10: whenever the plotter is invoked the tag, the tau axis and the array
\* agree (LUT30 with 27 and 27, LUT15 with 25 and 25), and every AOT index
\* the plotter selects is a valid index of the tau axis and of the array.
C10_TagAxisArrayAgree ==
    PlotterInvoked =>
        /\ ftau \in {"LUT30", "LUT15"}
        /\ Len(minilut) = 4
        /\ ftau = "LUT30" <=> (Len(tau) = 27 /\ minilut[3] = 27)
        /\ ftau = "LUT15" <=> (Len(tau) = 25 /\ minilut[3] = 25)
        /\ \A i \in 1..Len(tau_sampling) :
              /\ tau_sampling[i] \in 0..(Len(tau) - 1)
              /\ tau_sampling[i] \in 0..(minilut[3] - 1)
        /\ pc \in {"loop", "savefig", "show", "done"} => Len(tau_sampling) > 0

C10_Witness ==
    /\ FallbackWarned
    /\ ftau = "LUT15" /\ Len(tau) = 25 /\ minilut[3] = 25
    /\ args.all
    /\ pc = "loop" /\ Len(plotted) = 25

====
